---- MODULE Spec2Model ----
(***************************************************************************)
(* Model of the Fake News Detector Streamlit script (src/app.py).          *)
(*                                                                         *)
(* Text is a sequence of one-character strings, so that len(), slicing,    *)
(* str.lower(), str.strip() and the `in` substring test are computed.      *)
(* Probabilities and the confidence slider are integers in hundredths.     *)
(***************************************************************************)
EXTENDS Integers, Sequences, FiniteSets, TLC

VARIABLES
    vec, clf,          \* the two artifacts returned by load_model(): "obj" or "None"
    classes_,          \* clf.classes_ : the classifier's label list
    gc_key,            \* st.secrets["google"]["fact_check_key"], or "None"
    confidence,        \* sidebar slider, hundredths
    max_feeds,         \* sidebar slider
    use_factcheck,     \* sidebar checkbox
    mode,              \* radio: "Paste text" | "Enter URL"
    user_text,         \* text area content
    user_url,          \* text input content
    fetch_now,         \* st.session_state.get("fetch_now", False)
    pc,                \* position of the script run
    clicked,           \* the button whose click caused the current run, or "none"
    feedIdx,           \* next feed of RSS_FEEDS the fetch loop visits
    headlines,         \* list of headline texts
    metas,             \* list of {"source", "title", "link"}
    parsed,            \* per visited feed: what feedparser.parse did
    itemIdx,           \* index of the headline the render loop handles next
    fetched,           \* whether this run entered headline retrieval
    unit,              \* what the last analysis handled: "headline", "article", "none"
    text,              \* the text handed to the last analysis
    events,            \* what happened to the last analysed item, in order
    fact_results,      \* the fact-check list of the last analysed item
    shown,             \* the st.error/st.success/st.info calls of its fact-check display
    probs,             \* clf.predict_proba(X)[0] for the text under analysis
    real_prob, label,  \* result of the last classification
    ret,               \* return value of the helper last called
    http,              \* HTTP requests issued by the helper last called
    env,               \* what the network answered to the helper last called
    extracted,         \* return value of the last extract_text_from_url call
    page,              \* what the network answered to that call
    raw_shown,         \* whether this run rendered a "Show raw probs" button
    ui                 \* st.warning / st.error / st.info messages of the last step

artifactVars == <<vec, clf, classes_, gc_key>>
widgetVars   == <<confidence, max_feeds, use_factcheck, mode, user_text, user_url>>
fetchVars    == <<feedIdx, headlines, metas, parsed, fetched>>
itemVars     == <<unit, text, events, fact_results, shown, probs, real_prob, label>>
helperVars   == <<ret, http, env, extracted, page>>
vars == <<artifactVars, widgetVars, fetch_now, pc, clicked, fetchVars, itemIdx,
          itemVars, helperVars, ui, raw_shown>>

(***************************************************************************)
(* Strings                                                                 *)
(***************************************************************************)
UPPER == <<"A","B","C","D","E","F","G","H","I","J","K","L","M",
           "N","O","P","Q","R","S","T","U","V","W","X","Y","Z">>
LOWER == <<"a","b","c","d","e","f","g","h","i","j","k","l","m",
           "n","o","p","q","r","s","t","u","v","w","x","y","z">>

lower_char(c) ==
    IF \E i \in 1..26 : UPPER[i] = c
    THEN LOWER[CHOOSE i \in 1..26 : UPPER[i] = c]
    ELSE c

\* str.lower()
lower(s) == [i \in 1..Len(s) |-> lower_char(s[i])]

\* `sub in s` for strings
contains(sub, s) ==
    \E i \in 0..(Len(s) - Len(sub)) : SubSeq(s, i + 1, i + Len(sub)) = sub

WHITESPACE == {" ", "\n", "\t"}

RECURSIVE lstrip(_)
lstrip(s) == IF s # <<>> /\ Head(s) \in WHITESPACE THEN lstrip(Tail(s)) ELSE s

RECURSIVE rstrip(_)
rstrip(s) ==
    IF s # <<>> /\ s[Len(s)] \in WHITESPACE THEN rstrip(SubSeq(s, 1, Len(s) - 1)) ELSE s

\* str.strip()
strip(s) == rstrip(lstrip(s))

\* s[:n]
prefix(s, n) == SubSeq(s, 1, IF Len(s) < n THEN Len(s) ELSE n)

\* n copies of the character c
rep(c, n) == [i \in 1..n |-> c]

RECURSIVE join(_, _)
\* sep.join(parts)
join(sep, parts) ==
    IF parts = <<>> THEN <<>>
    ELSE IF Len(parts) = 1 THEN parts[1]
    ELSE parts[1] \o sep \o join(sep, Tail(parts))

(***************************************************************************)
(* Local classification (src/app.py 200-205 and 269-274)                   *)
(***************************************************************************)
REAL == <<"R","E","A","L">>
Real == <<"R","e","a","l">>
FAKE == <<"F","A","K","E">>

\* {classes[j]: float(probs[j]) for j in range(len(classes))}: a later
\* duplicate key overwrites an earlier one
prob_dict(classes, p) ==
    [c \in {classes[j] : j \in 1..Len(classes)} |->
        p[CHOOSE j \in 1..Len(classes) :
            /\ classes[j] = c
            /\ \A k \in 1..Len(classes) : classes[k] = c => k <= j]]

\* dict.get(key, default)
dict_get(d, key, default) == IF key \in DOMAIN d THEN d[key] ELSE default

\* line 204 / 273
real_prob_of(classes, p) ==
    dict_get(prob_dict(classes, p), REAL, dict_get(prob_dict(classes, p), Real, 0))

\* line 205
headline_label(rp, threshold) == IF rp >= threshold THEN REAL ELSE FAKE

\* the comparison reversed
article_label_BUG(rp, threshold) == IF rp <= threshold THEN REAL ELSE FAKE
\* line 274
article_label(rp, threshold) == IF rp >= threshold THEN REAL ELSE FAKE

(***************************************************************************)
(* JSON values as Python sees them after resp.json()                       *)
(***************************************************************************)
Null    == [t |-> "null", v |-> 0]
Num(n)  == [t |-> "num", v |-> n]
Str(s)  == [t |-> "str", v |-> s]
Arr(xs) == [t |-> "arr", v |-> xs]
Obj(f)  == [t |-> "obj", v |-> f]
EmptyObj == Obj([k \in {} |-> Null])

\* the outcome of an expression that raised an exception
RAISE == [t |-> "raise", v |-> 0]
raised_(x) == x.t = "raise"

\* bool(x)
truthy(x) ==
    CASE x.t = "null" -> FALSE
      [] x.t = "num"  -> x.v # 0
      [] x.t = "str"  -> x.v # <<>>
      [] x.t = "arr"  -> x.v # <<>>
      [] x.t = "obj"  -> DOMAIN x.v # {}
      [] OTHER        -> FALSE

\* x.get(key, default): AttributeError unless x is a dict
py_get(x, key, default) ==
    IF x.t # "obj" THEN RAISE
    ELSE IF key \in DOMAIN x.v THEN x.v[key] ELSE default

\* x[0] of a truthy x: the first element of a list, the first character of
\* a string, KeyError on a dict, TypeError on a number
py_first(x) ==
    CASE x.t = "arr" -> x.v[1]
      [] x.t = "str" -> Str(<<x.v[1]>>)
      [] OTHER       -> RAISE

RECURSIVE keys_of(_)
\* the keys of a dict as a list of strings
keys_of(ks) ==
    IF ks = {} THEN <<>>
    ELSE LET k == CHOOSE x \in ks : TRUE IN <<Str(<<k>>)>> \o keys_of(ks \ {k})

\* list(iter(x)): the elements of a list, the characters of a string, the
\* keys of a dict; TypeError on None and on a number
py_iter(x) ==
    CASE x.t = "arr" -> [ok |-> TRUE, val |-> x.v]
      [] x.t = "str" -> [ok |-> TRUE, val |-> [i \in 1..Len(x.v) |-> Str(<<x.v[i]>>)]]
      [] x.t = "obj" -> [ok |-> TRUE, val |-> keys_of(DOMAIN x.v)]
      [] OTHER       -> [ok |-> FALSE, val |-> <<>>]

(***************************************************************************)
(* call_google_factcheck (src/app.py 58-93)                                *)
(***************************************************************************)
\* `if api_key` on None, "" or a key
key_truthy(k) == k # "None" /\ k # ""

\* lines 71-89: the record of one claim, or RAISE
claim_record(c) ==
    LET reviews   == py_get(c, "claimReview", Arr(<<>>))
        review    == py_first(reviews)
        publisher == py_get(py_get(review, "publisher", EmptyObj), "name", Str(<<>>))
    IN  IF raised_(reviews) THEN RAISE
        ELSE IF truthy(reviews)
        THEN IF raised_(review) \/ review.t # "obj" \/ raised_(publisher) THEN RAISE
             ELSE [t |-> "record",
                   claim |-> py_get(c, "text", Str(<<>>)),
                   claimant |-> py_get(c, "claimant", Str(<<>>)),
                   textual_rating |-> py_get(review, "textualRating", Str(<<>>)),
                   publisher |-> publisher,
                   url |-> py_get(review, "url", Str(<<>>)),
                   published |-> py_get(review, "publishedDate", Str(<<>>))]
        ELSE [t |-> "record",
              claim |-> py_get(c, "text", Str(<<>>)),
              claimant |-> py_get(c, "claimant", Str(<<>>)),
              textual_rating |-> Str(<<>>), publisher |-> Str(<<>>),
              url |-> Str(<<>>), published |-> Str(<<>>)]

\* lines 68-90: the result list built from the decoded body
claims_results(j) ==
    LET claims == py_get(j, "claims", Arr(<<>>))
        cs     == py_iter(claims)
    IN  IF raised_(claims) \/ ~cs.ok THEN [ok |-> FALSE, val |-> <<>>]
        ELSE IF \E i \in 1..Len(cs.val) : raised_(claim_record(cs.val[i]))
        THEN [ok |-> FALSE, val |-> <<>>]
        ELSE [ok |-> TRUE, val |-> [i \in 1..Len(cs.val) |-> claim_record(cs.val[i])]]

\* lines 63-90, the body of the try: requests.get, raise_for_status,
\* resp.json and the loop; ok is false when an exception left it
factcheck_try(query, api_key, outcome) ==
    CASE outcome.kind \in {"transport_error", "timeout"} -> [ok |-> FALSE, val |-> <<>>]
      [] outcome.kind = "response" /\ outcome.status >= 400 -> [ok |-> FALSE, val |-> <<>>]
      [] outcome.kind = "response" /\ ~outcome.is_json -> [ok |-> FALSE, val |-> <<>>]
      [] OTHER -> claims_results(outcome.body)

\* lines 58-93: what the call returns, whether it raised, the HTTP requests
\* it issued and whether it showed the "Fact Check API error" warning
call_google_factcheck(query, api_key, outcome) ==
    IF ~key_truthy(api_key)
    THEN [ret |-> <<>>, raised |-> FALSE, http |-> 0, warned |-> FALSE]
    ELSE LET r == factcheck_try(query, api_key, outcome)
         IN  IF ~r.ok
             THEN [ret |-> <<>>, raised |-> FALSE, http |-> 1, warned |-> TRUE]
             ELSE [ret |-> r.val, raised |-> FALSE, http |-> 1, warned |-> FALSE]

(***************************************************************************)
(* Display of fact-check records (src/app.py 179-192 and 252-264)          *)
(***************************************************************************)
S_false    == <<"f","a","l","s","e">>
S_pants    == <<"p","a","n","t","s"," ","o","n"," ","f","i","r","e">>
S_true     == <<"t","r","u","e">>
S_correct  == <<"c","o","r","r","e","c","t">>
S_accurate == <<"a","c","c","u","r","a","t","e">>
S_Unknown  == <<"U","n","k","n","o","w","n">>

\* r.get("textual_rating") or "Unknown"
rating_of(r) == IF truthy(r.textual_rating) THEN r.textual_rating ELSE Str(S_Unknown)

\* lines 184-190: "error", "success" or "info"; "raise" when rating.lower()
\* is called on a value that is no string
headline_verdict(r) ==
    LET rating == rating_of(r) IN
    IF rating.t # "str" THEN "raise"
    ELSE LET verdict == lower(rating.v) IN
         IF contains(S_false, verdict) \/ contains(S_pants, verdict) THEN "error"
         ELSE IF contains(S_true, verdict) \/ contains(S_correct, verdict)
                 \/ contains(S_accurate, verdict) THEN "success"
         ELSE "info"

\* lines 257-262
article_verdict(r) ==
    LET rating == rating_of(r) IN
    IF rating.t # "str" THEN "raise"
    ELSE IF contains(S_false, lower(rating.v)) THEN "error"
    ELSE IF contains(S_true, lower(rating.v)) THEN "success"
    ELSE "info"

RECURSIVE display(_, _, _)
\* the loop over the records with verdict function kind: the calls made
\* before the loop ended or an exception left it
display(kind, rs, acc) ==
    IF rs = <<>> THEN [shown |-> acc, crashed |-> FALSE]
    ELSE LET v == IF kind = "headline" THEN headline_verdict(Head(rs))
                  ELSE article_verdict(Head(rs))
         IN  IF v = "raise" THEN [shown |-> acc, crashed |-> TRUE]
             ELSE display(kind, Tail(rs), Append(acc, v))

(***************************************************************************)
(* Lines 196-205 and 266-274: the fallback guard and the classification    *)
(***************************************************************************)
\* lines 196-205: the headline fallback on predict_proba output p
headline_fallback(vec_, clf_, classes, p, threshold) ==
    IF vec_ = "None" \/ clf_ = "None"
    THEN [events |-> <<"unavailable">>, probs |-> <<>>, real_prob |-> 0, label |-> <<>>]
    ELSE [events |-> <<"classify">>, probs |-> p,
          real_prob |-> real_prob_of(classes, p),
          label |-> headline_label(real_prob_of(classes, p), threshold)]

\* lines 266-274: the 'Analyze article' fallback on predict_proba output p
article_fallback(vec_, clf_, classes, p, threshold) ==
    IF vec_ = "None" \/ clf_ = "None"
    THEN [events |-> <<"unavailable">>, probs |-> <<>>, real_prob |-> 0, label |-> <<>>]
    ELSE [events |-> <<"classify">>, probs |-> p,
          real_prob |-> real_prob_of(classes, p),
          label |-> article_label(real_prob_of(classes, p), threshold)]

(***************************************************************************)
(* Values every specification starts from                                  *)
(***************************************************************************)
SliderMin == 50
SliderMax == 99
SliderDefault == 62
Thresholds == SliderMin..SliderMax

MaxFeedsMin == 1
MaxFeedsMax == 10
MaxFeedsDefault == 5

WidgetDefaults ==
    /\ confidence = SliderDefault
    /\ max_feeds = MaxFeedsDefault
    /\ use_factcheck = TRUE
    /\ mode = "Paste text"
    /\ user_text = <<>>
    /\ user_url = <<>>

FetchIdle ==
    /\ feedIdx = 1
    /\ headlines = <<>>
    /\ metas = <<>>
    /\ parsed = <<>>
    /\ fetched = FALSE

ItemIdle ==
    /\ unit = "none"
    /\ text = <<>>
    /\ events = <<>>
    /\ fact_results = <<>>
    /\ shown = <<>>
    /\ real_prob = 0
    /\ label = <<>>

NoRequest == [kind |-> "none"]

HelperIdle ==
    /\ ret = <<>>
    /\ http = 0
    /\ env = NoRequest
    /\ extracted = <<>>
    /\ page = NoRequest
    /\ raw_shown = FALSE

(***************************************************************************)
(* SpecClassify: one text, classified again and again as the confidence    *)
(* slider moves, by the headline fallback and by 'Analyze article'         *)
(***************************************************************************)
ClassLists ==
    { <<FAKE, REAL>>, <<REAL, FAKE>>,
      <<<<"F","a","k","e">>, Real>>,
      <<<<"f","a","k","e">>, <<"r","e","a","l">>>>,
      <<<<"0">>, <<"1">>>> }

\* predict_proba rows of a two-class classifier, in hundredths: certain,
\* around the slider's lower end and default, and at its upper end
ProbVectors == { <<a, 100 - a>> : a \in {0, 1} \cup (49..63) \cup {98, 99, 100} }

InitClassify ==
    /\ vec = "obj" /\ clf = "obj"
    /\ classes_ \in ClassLists
    /\ gc_key = "None"
    /\ WidgetDefaults
    /\ fetch_now = FALSE
    /\ pc = "classify"
    /\ clicked = "none"
    /\ FetchIdle
    /\ itemIdx = 1
    /\ ItemIdle /\ HelperIdle
    /\ ui = <<>>
    /\ probs \in ProbVectors


\* a re-run with the slider at t in which the headline fallback classifies
\* the text
ClassifyHeadline(t) ==
    /\ pc = "classify"
    /\ confidence' = t
    /\ \E r \in {headline_fallback(vec, clf, classes_, probs, t)} :
        /\ unit' = "headline"
        /\ events' = r.events
        /\ real_prob' = r.real_prob
        /\ label' = r.label
    /\ UNCHANGED <<artifactVars, max_feeds, use_factcheck, mode, user_text, user_url,
                   fetch_now, pc, clicked, fetchVars, itemIdx, text, fact_results,
                   shown, probs, helperVars, ui, raw_shown>>

\* a re-run with the slider at t in which 'Analyze article' classifies the text
ClassifyArticle(t) ==
    /\ pc = "classify"
    /\ confidence' = t
    /\ \E r \in {article_fallback(vec, clf, classes_, probs, t)} :
        /\ unit' = "article"
        /\ events' = r.events
        /\ real_prob' = r.real_prob
        /\ label' = r.label
    /\ UNCHANGED <<artifactVars, max_feeds, use_factcheck, mode, user_text, user_url,
                   fetch_now, pc, clicked, fetchVars, itemIdx, text, fact_results,
                   shown, probs, helperVars, ui, raw_shown>>

NextClassify ==
    \/ \E t \in Thresholds : ClassifyHeadline(t)
    \/ \E t \in Thresholds : ClassifyArticle(t)

SpecClassify == InitClassify /\ [][NextClassify]_vars

\* the probability a classifier gives its REAL class, whatever the case of
\* the label; -1 when it has no such class
RealClassProb(classes, p) ==
    IF \E j \in 1..Len(classes) : lower(classes[j]) = lower(REAL)
    THEN p[CHOOSE j \in 1..Len(classes) : lower(classes[j]) = lower(REAL)]
    ELSE -1

Classified == unit \in {"headline", "article"} /\ events = <<"classify">>

\* C1: in both classification paths the result is one label of {REAL, FAKE}
\* and a confidence in [0,1] that is the probability of the classifier's REAL
\* class under any case variant of its label, and the label is REAL exactly
\* when that probability is at least the threshold.
C1_Claim ==
    Classified =>
        /\ label \in {REAL, FAKE}
        /\ real_prob \in 0..100
        /\ RealClassProb(classes_, probs) # -1 => real_prob = RealClassProb(classes_, probs)
        /\ label = REAL <=> real_prob >= confidence

\* what C1 leaves standing: the label is REAL exactly when the looked-up
\* probability reaches the threshold
C1_LabelRule ==
    Classified =>
        /\ label \in {REAL, FAKE}
        /\ real_prob \in 0..100
        /\ label = REAL <=> real_prob >= confidence

\* C2: for the same per-class probabilities, a FAKE verdict stays FAKE when
\* the threshold is raised or kept.
C2_Monotone ==
    [][(/\ Classified /\ Classified'
        /\ probs' = probs /\ classes_' = classes_
        /\ confidence <= confidence'
        /\ label = FAKE) => label' = FAKE]_vars

\* a FAKE verdict above the default threshold for a text that is FAKE at the
\* default too
C2_Witness ==
    /\ Classified
    /\ label = FAKE
    /\ confidence > SliderDefault
    /\ real_prob < SliderDefault
    /\ real_prob >= SliderMin

(***************************************************************************)
(* SpecFactCheck: call_google_factcheck on every key and every answer of   *)
(* the service, then the display of its records by either caller           *)
(***************************************************************************)
R_False     == <<"F","a","l","s","e">>
R_Pants     == <<"P","a","n","t","s"," ","o","n"," ","F","i","r","e">>
R_True      == <<"M","o","s","t","l","y"," ","T","r","u","e">>
R_Correct   == <<"C","o","r","r","e","c","t">>
R_Accurate  == <<"I","n","a","c","c","u","r","a","t","e">>
R_Unproven  == <<"U","n","p","r","o","v","e","n">>
Ratings == {R_False, R_Pants, R_True, R_Correct, R_Accurate, R_Unproven, <<>>}

PUBLISHER == Obj("name" :> Str(<<"P","F">>))
URL       == Str(<<"u">>)

\* a claimReview entry with the given textualRating value
Review(rating) == Obj(("textualRating" :> rating) @@ ("publisher" :> PUBLISHER) @@ ("url" :> URL))
\* a claim with the given claimReview value
Claim(reviews) == Obj(("text" :> Str(<<"c">>)) @@ ("claimReview" :> reviews))
\* a response body with the given claims value
Body(claims) == Obj("claims" :> claims)

WellFormedBodies ==
    {EmptyObj, Body(Arr(<<>>)),
     Body(Arr(<<Obj("text" :> Str(<<"c">>))>>)),
     Body(Arr(<<Claim(Arr(<<>>))>>)),
     Body(Arr(<<Claim(Arr(<<Obj("url" :> URL)>>))>>)),
     Body(Arr(<<Claim(Arr(<<Review(Str(R_False))>>)), Claim(Arr(<<Review(Str(R_True))>>))>>)),
     Body(Arr(<<Claim(Arr(<<Review(Str(R_Unproven))>>)), Claim(Arr(<<Review(Str(R_Pants))>>))>>))}
    \cup {Body(Arr(<<Claim(Arr(<<Review(Str(r))>>))>>)) : r \in Ratings}

\* decoded bodies whose fields are not of the documented types
MalformedBodies ==
    {Null, Arr(<<>>), Str(<<"x">>), Num(1),
     Body(Null), Body(Str(<<"a","b">>)), Body(Num(0)), Body(Obj("a" :> Null)),
     Body(Arr(<<Str(<<"x">>)>>)), Body(Arr(<<Null>>)),
     Body(Arr(<<Claim(EmptyObj)>>)), Body(Arr(<<Claim(Review(Str(R_False)))>>)),
     Body(Arr(<<Claim(Num(3))>>)), Body(Arr(<<Claim(Str(<<"a","b">>))>>)),
     Body(Arr(<<Claim(Null)>>)),
     Body(Arr(<<Claim(Arr(<<Str(<<"x">>)>>))>>)),
     Body(Arr(<<Claim(Arr(<<Null>>))>>)),
     Body(Arr(<<Claim(Arr(<<Obj(("textualRating" :> Str(R_False)) @@ ("publisher" :> Null))>>))>>)),
     Body(Arr(<<Claim(Arr(<<Obj(("textualRating" :> Str(R_False)) @@ ("publisher" :> Str(<<"P">>)))>>))>>)),
     Body(Arr(<<Claim(Arr(<<Review(Num(5))>>))>>)),
     Body(Arr(<<Claim(Arr(<<Review(Null)>>))>>)),
     Body(Arr(<<Claim(Arr(<<Review(Str(R_True))>>)), Claim(Arr(<<Review(Num(5))>>))>>)),
     Body(Arr(<<Obj("text" :> Num(7))>>))}

Bodies == WellFormedBodies \cup MalformedBodies

\* what can come of requests.get(...), raise_for_status() and resp.json()
Outcomes ==
    {[kind |-> "transport_error"], [kind |-> "timeout"]}
    \cup {[kind |-> "response", status |-> st, is_json |-> FALSE, body |-> Null] :
            st \in {200, 403, 500}}
    \cup {[kind |-> "response", status |-> st, is_json |-> TRUE, body |-> b] :
            st \in {200, 403}, b \in Bodies}

ApiKeys == {"None", "", "KEY"}

InitFactCheck ==
    /\ vec = "obj" /\ clf = "obj"
    /\ classes_ = <<FAKE, REAL>>
    /\ gc_key \in ApiKeys
    /\ WidgetDefaults
    /\ fetch_now = FALSE
    /\ pc = "call"
    /\ clicked = "none"
    /\ FetchIdle
    /\ itemIdx = 1
    /\ ItemIdle /\ HelperIdle
    /\ probs = <<>>
    /\ ui = <<>>

\* call_google_factcheck(query, gc_key) with the service answering o
CallFactCheck(o) ==
    /\ pc = "call"
    /\ \E r \in {call_google_factcheck(<<"q">>, gc_key, o)} :
        /\ ret' = r.ret
        /\ http' = r.http
        /\ env' = IF r.http = 0 THEN NoRequest ELSE o
        /\ ui' = IF r.warned THEN <<"warning: Fact Check API error">> ELSE <<>>
        /\ pc' = IF r.raised THEN "raised" ELSE "returned"
    /\ UNCHANGED <<artifactVars, widgetVars, fetch_now, clicked, fetchVars, itemIdx,
                   itemVars, extracted, page, raw_shown>>

\* the caller's loop over a non-empty result list: kind is "headline" for
\* lines 179-192 and "article" for lines 252-264
DisplayRecords(kind) ==
    /\ pc = "returned"
    /\ ret # <<>>
    /\ \E d \in {display(kind, ret, <<>>)} :
        /\ shown' = d.shown
        /\ pc' = IF d.crashed THEN "crashed" ELSE "displayed"
    /\ unit' = kind
    /\ fact_results' = ret
    /\ events' = <<"fc_display">>
    /\ UNCHANGED <<artifactVars, widgetVars, fetch_now, clicked, fetchVars, itemIdx,
                   text, probs, real_prob, label, helperVars, ui, raw_shown>>

NextFactCheck ==
    \/ \E o \in Outcomes : CallFactCheck(o)
    \/ DisplayRecords("headline")
    \/ DisplayRecords("article")

SpecFactCheck == InitFactCheck /\ [][NextFactCheck]_vars

\* a decoded body of the documented shape: an object whose "claims", when
\* present, is a list of objects, each "claimReview" a list of objects whose
\* fields are strings and whose "publisher" is an object
StrOrAbsent(o, k) == k \in DOMAIN o.v => o.v[k].t = "str"
WellFormedReview(rv) ==
    /\ rv.t = "obj"
    /\ StrOrAbsent(rv, "textualRating") /\ StrOrAbsent(rv, "url")
    /\ StrOrAbsent(rv, "publishedDate")
    /\ "publisher" \in DOMAIN rv.v =>
          rv.v["publisher"].t = "obj" /\ StrOrAbsent(rv.v["publisher"], "name")
WellFormedClaim(c) ==
    /\ c.t = "obj"
    /\ StrOrAbsent(c, "text") /\ StrOrAbsent(c, "claimant")
    /\ "claimReview" \in DOMAIN c.v =>
          /\ c.v["claimReview"].t = "arr"
          /\ \A i \in 1..Len(c.v["claimReview"].v) : WellFormedReview(c.v["claimReview"].v[i])
WellFormed(j) ==
    /\ j.t = "obj"
    /\ "claims" \in DOMAIN j.v =>
          /\ j.v["claims"].t = "arr"
          /\ \A i \in 1..Len(j.v["claims"].v) : WellFormedClaim(j.v["claims"].v[i])

\* the request failed: transport error, timeout, HTTP error status, a body
\* that is no JSON or one whose fields have unexpected shapes
RequestFailed(o) ==
    \/ o.kind \in {"transport_error", "timeout"}
    \/ o.kind = "response" /\ (o.status >= 400 \/ ~o.is_json \/ ~WellFormed(o.body))

\* C3: call_google_factcheck never raises; without a key it returns an empty
\* list and issues no HTTP request; for every failure of the request,
\* unexpected field shapes included, it returns an empty list.
C3_Claim ==
    pc # "call" =>
        /\ pc # "raised"
        /\ ~key_truthy(gc_key) => (ret = <<>> /\ http = 0)
        /\ (env # NoRequest /\ RequestFailed(env)) => ret = <<>>

\* what C3 leaves standing: no exception, no request without a key, and an
\* empty list whenever the request or the decoding raised
C3_NeverRaises ==
    pc # "call" =>
        /\ pc # "raised"
        /\ ~key_truthy(gc_key) => (ret = <<>> /\ http = 0)
        /\ (env # NoRequest /\ (env.kind # "response" \/ env.status >= 400 \/ ~env.is_json))
              => ret = <<>>

\* the keyword rule of section 4.2 on a textual rating
RuleVerdict(rating) ==
    IF contains(S_false, lower(rating)) \/ contains(S_pants, lower(rating)) THEN "error"
    ELSE IF contains(S_true, lower(rating)) \/ contains(S_correct, lower(rating))
            \/ contains(S_accurate, lower(rating)) THEN "success"
    ELSE "info"

\* C8: every displayed record, in both paths, gets its verdict from the
\* keyword rule (negative on 'false' or 'pants on fire', else positive on
\* 'true', 'correct' or 'accurate', else neutral; an empty rating neutral),
\* one per claim in the order the service returned them.
C8_Claim ==
    pc = "displayed" =>
        /\ Len(shown) = Len(fact_results)
        /\ \A k \in 1..Len(shown) :
              LET rating == fact_results[k].textual_rating IN
              shown[k] = IF rating.t = "str" /\ rating.v # <<>>
                         THEN RuleVerdict(rating.v) ELSE "info"

\* the same, for the headline path alone
C8_HeadlineRule ==
    (pc = "displayed" /\ unit = "headline") =>
        /\ Len(shown) = Len(fact_results)
        /\ \A k \in 1..Len(shown) :
              LET rating == fact_results[k].textual_rating IN
              shown[k] = IF rating.t = "str" /\ rating.v # <<>>
                         THEN RuleVerdict(rating.v) ELSE "info"

(***************************************************************************)
(* Headline retrieval (src/app.py 98-105 and 147-159)                      *)
(***************************************************************************)
RSS_FEEDS == <<"Reuters", "BBC", "CNN", "The Guardian", "NYTimes", "Times of India">>

\* the model visits the first NumFeeds feeds of RSS_FEEDS, each offering at
\* most MaxEntries entries
NumFeeds == 3
MaxEntries == 3
Feeds == SubSeq(RSS_FEEDS, 1, NumFeeds)

TAGS == {"<p>", "</p>", "<b>", "</b>"}
IsChar(c) == c \notin TAGS

\* BeautifulSoup(markup, 'html.parser').get_text(): the markup without its tags
get_text(markup) == SelectSeq(markup, IsChar)

\* e.get("summary", "") or e.get("description", "")
summary_of(e) == IF e.summary # <<>> THEN e.summary ELSE e.description

\* line 155
entry_text(e) == e.title \o <<".", " ">> \o get_text(summary_of(e))

\* the number of entries handled before one raised (all of them when none did)
RECURSIVE good_prefix(_)
good_prefix(es) ==
    IF es = <<>> \/ Head(es).bad_markup THEN 0 ELSE 1 + good_prefix(Tail(es))

\* the lists are reset when a parse raises
feed_step_BUG(hl, mt, src, o, maxf) ==
    IF o.kind = "raise"
    THEN [headlines |-> <<>>, metas |-> <<>>, warned |-> TRUE]
    ELSE LET es == prefix(o.entries, maxf)
             n  == good_prefix(es)
         IN  [headlines |-> hl \o [i \in 1..n |-> entry_text(es[i])],
              metas |-> mt \o [i \in 1..n |->
                           [source |-> src, title |-> es[i].title, link |-> es[i].link]],
              warned |-> n < Len(es)]
\* lines 149-159, one iteration of the loop over RSS_FEEDS: feedparser.parse
\* did o; the lists after the iteration and whether st.warning was called
feed_step(hl, mt, src, o, maxf) ==
    IF o.kind = "raise"
    THEN [headlines |-> hl, metas |-> mt, warned |-> TRUE]
    ELSE LET es == prefix(o.entries, maxf)
             n  == good_prefix(es)
         IN  [headlines |-> hl \o [i \in 1..n |-> entry_text(es[i])],
              metas |-> mt \o [i \in 1..n |->
                           [source |-> src, title |-> es[i].title, link |-> es[i].link]],
              warned |-> n < Len(es)]

\* lines 148-159: the fetch loop handles feed feedIdx, whose parse did o
FeedStep(o) ==
    /\ pc = "feeds"
    /\ feedIdx <= Len(Feeds)
    /\ \E r \in {feed_step(headlines, metas, Feeds[feedIdx], o, max_feeds)} :
        /\ headlines' = r.headlines
        /\ metas' = r.metas
        /\ ui' = IF r.warned THEN <<"warning: Feed parse failed">> ELSE <<>>
    /\ parsed' = Append(parsed, o)
    /\ feedIdx' = feedIdx + 1
    /\ UNCHANGED <<artifactVars, widgetVars, fetch_now, pc, clicked, fetched, itemIdx,
                   itemVars, helperVars, raw_shown>>

\* lines 161-164: after the loop, the info message or the render loop
AfterFeeds ==
    /\ pc = "feeds"
    /\ feedIdx > Len(Feeds)
    /\ IF headlines = <<>>
       THEN pc' = "side" /\ ui' = <<"info: No headlines fetched">>
       ELSE pc' = "render" /\ ui' = <<>>
    /\ itemIdx' = 1
    /\ UNCHANGED <<artifactVars, widgetVars, fetch_now, clicked, fetchVars, itemVars,
                   helperVars, raw_shown>>

(***************************************************************************)
(* SpecFetch: the fetch loop on every combination of feed outcomes         *)
(***************************************************************************)
DIGITS == <<"1", "2", "3", "4", "5", "6", "7", "8", "9">>
LINK == <<"h", "t", "t", "p">>

\* entry j of source src: a headline with a summary
LongEntry(src, j) ==
    [title |-> <<src, DIGITS[j]>> \o rep("x", 20),
     summary |-> <<"<p>", "s", "u", "m", "</p>">>, description |-> <<>>,
     link |-> LINK, bad_markup |-> FALSE]
\* an entry on which the extraction of the text raises
BadEntry(src, j) ==
    [title |-> <<src, DIGITS[j]>>, summary |-> <<"<p>">>, description |-> <<>>,
     link |-> LINK, bad_markup |-> TRUE]

\* feedparser.parse raises, or returns 0..MaxEntries entries, the last of
\* which may be one whose handling raises
FetchOutcomes(src) ==
    {[kind |-> "raise"]}
    \cup {[kind |-> "ok", entries |-> [j \in 1..n |-> LongEntry(src, j)]] : n \in 0..MaxEntries}
    \cup {[kind |-> "ok",
           entries |-> [j \in 1..n |-> IF j = n THEN BadEntry(src, j) ELSE LongEntry(src, j)]] :
            n \in 1..MaxEntries}

\* the values of the per-source slider that differ in effect on MaxEntries entries
MaxFeedsChoices == {n \in MaxFeedsMin..MaxFeedsMax : n <= MaxEntries + 1}

InitFetch ==
    /\ vec = "obj" /\ clf = "obj"
    /\ classes_ = <<FAKE, REAL>>
    /\ gc_key = "None"
    /\ confidence = SliderDefault
    /\ max_feeds \in MaxFeedsChoices
    /\ use_factcheck = TRUE
    /\ mode = "Paste text"
    /\ user_text = <<>>
    /\ user_url = <<>>
    /\ fetch_now = TRUE
    /\ pc = "feeds"
    /\ clicked = "fetch"
    /\ feedIdx = 1 /\ headlines = <<>> /\ metas = <<>> /\ parsed = <<>>
    /\ fetched = TRUE
    /\ itemIdx = 1
    /\ ItemIdle /\ HelperIdle
    /\ probs = <<>>
    /\ ui = <<>>

\* the next feed of the loop answers with any of its outcomes
FetchFeed ==
    /\ feedIdx <= Len(Feeds)
    /\ \E o \in FetchOutcomes(Feeds[feedIdx]) : FeedStep(o)

NextFetch ==
    \/ FetchFeed
    \/ AfterFeeds

SpecFetch == InitFetch /\ [][NextFetch]_vars

\* feed f succeeded: its parse returned entries and none of those the loop
\* handled raised
Succeeded(f) ==
    /\ parsed[f].kind = "ok"
    /\ parsed[f].entries # <<>>
    /\ good_prefix(prefix(parsed[f].entries, max_feeds)) = Len(prefix(parsed[f].entries, max_feeds))

\* the positions of the headlines of source src
PositionsOf(src) == {i \in 1..Len(metas) : metas[i].source = src}

LoopDone == pc \in {"render", "side"} /\ fetched

\* C4: whatever subset of the feeds fails, the loop visits every feed, and
\* the headline list holds the entries (up to the per-source count) of
\* every feed that succeeded, in feed order and in entry order; a failing
\* feed discards nothing collected from the others.
C4_Isolation ==
    LoopDone =>
        /\ Len(parsed) = Len(Feeds)
        /\ Len(headlines) = Len(metas)
        /\ \A f \in 1..Len(Feeds) :
              Succeeded(f) =>
                 LET es == prefix(parsed[f].entries, max_feeds) IN
                 /\ Cardinality(PositionsOf(Feeds[f])) = Len(es)
                 /\ \A j \in 1..Len(es) :
                       \E i \in PositionsOf(Feeds[f]) :
                          /\ metas[i].title = es[j].title
                          /\ headlines[i] = entry_text(es[j])
                          /\ Cardinality({k \in PositionsOf(Feeds[f]) : k < i}) = j - 1
        /\ \A i, k \in 1..Len(metas) :
              i < k => \E f, g \in 1..Len(Feeds) :
                          f <= g /\ metas[i].source = Feeds[f] /\ metas[k].source = Feeds[g]

\* the first feed succeeded with more entries than the per-source count, the
\* second raised, the third succeeded, and the list holds entries of both
C4_Witness ==
    /\ LoopDone
    /\ Len(Feeds) >= 3
    /\ Succeeded(1) /\ Len(parsed[1].entries) > max_feeds
    /\ parsed[2].kind = "raise"
    /\ Succeeded(3)
    /\ PositionsOf(Feeds[1]) # {} /\ PositionsOf(Feeds[3]) # {}

(***************************************************************************)
(* load_model (src/app.py 39-53)                                           *)
(***************************************************************************)
\* each artifact loaded on its own
load_model_BUG(vec_ok, clf_ok) ==
    [vec |-> IF vec_ok THEN "obj" ELSE "None",
     clf |-> IF clf_ok THEN "obj" ELSE "None",
     raised |-> FALSE,
     ui |-> IF vec_ok /\ clf_ok THEN <<>> ELSE <<"error: Local model load failed">>]
\* joblib.load of the vectorizer, then of the classifier, each succeeding or
\* raising: the pair returned, whether the call raised and what it showed
load_model(vec_ok, clf_ok) ==
    IF vec_ok /\ clf_ok
    THEN [vec |-> "obj", clf |-> "obj", raised |-> FALSE, ui |-> <<>>]
    ELSE [vec |-> "None", clf |-> "None", raised |-> FALSE,
          ui |-> <<"error: Local model load failed">>]

(***************************************************************************)
(* extract_text_from_url (src/app.py 126-135)                              *)
(***************************************************************************)
MinArticleLen == 50
NL == "\n"

\* requests.get(url) did o: the text returned, whether the call raised
extract_text_from_url(url, o) ==
    IF o.kind \in {"transport_error", "timeout"}
    THEN [ret |-> <<>>, raised |-> FALSE]
    ELSE LET txt == join(<<NL, NL>>, o.paragraphs)
         IN  [ret |-> IF Len(txt) >= MinArticleLen THEN txt ELSE <<>>, raised |-> FALSE]

(***************************************************************************)
(* One headline of the render loop (src/app.py 164-217)                    *)
(***************************************************************************)
NoCall == [ret |-> <<>>, raised |-> FALSE, http |-> 0, warned |-> FALSE]

\* the fallback not guarded by `if not displayed`
headline_item_BUG(txt, title, use_fc, key, vec_, clf_, classes, threshold, fo, p) ==
    LET looked == use_fc /\ key_truthy(key)
        fc     == IF looked THEN call_google_factcheck(title, key, fo) ELSE NoCall
        lk     == IF looked THEN <<"lookup">> ELSE <<>>
        d      == display("headline", fc.ret, <<>>)
        fb     == headline_fallback(vec_, clf_, classes, p, threshold)
    IN  [events |-> lk \o (IF fc.ret # <<>> THEN <<"fc_display">> ELSE <<>>) \o fb.events,
         fact_results |-> fc.ret, shown |-> d.shown, crashed |-> d.crashed,
         probs |-> fb.probs, real_prob |-> fb.real_prob, label |-> fb.label, fc |-> fc]

\* events in the order the code reaches them: "lookup" the fact-check call,
\* "fc_display" the card with fact-check results, "crash" an exception that
\* leaves the script, "classify" vec.transform and clf.predict_proba,
\* "unavailable" the model-not-available error
headline_item(txt, title, use_fc, key, vec_, clf_, classes, threshold, fo, p) ==
    LET looked == use_fc /\ key_truthy(key)
        fc     == IF looked THEN call_google_factcheck(title, key, fo) ELSE NoCall
        lk     == IF looked THEN <<"lookup">> ELSE <<>>
        d      == display("headline", fc.ret, <<>>)
        fb     == headline_fallback(vec_, clf_, classes, p, threshold)
    IN  IF fc.ret # <<>>
        THEN [events |-> lk \o <<"fc_display">> \o (IF d.crashed THEN <<"crash">> ELSE <<>>),
              fact_results |-> fc.ret, shown |-> d.shown, crashed |-> d.crashed,
              probs |-> <<>>, real_prob |-> 0, label |-> <<>>, fc |-> fc]
        ELSE [events |-> lk \o fb.events,
              fact_results |-> <<>>, shown |-> <<>>, crashed |-> FALSE,
              probs |-> fb.probs, real_prob |-> fb.real_prob, label |-> fb.label, fc |-> fc]

(***************************************************************************)
(* 'Analyze article' (src/app.py 230-281)                                  *)
(***************************************************************************)
MinTextLen == 20
QueryLen == 300

\* lines 231-240: the text to analyse and what the URL branch did
article_text(mode_, text_, url_, xo) ==
    IF mode_ = "Enter URL"
    THEN IF url_ = <<>>
         THEN [text |-> <<>>, events |-> <<"warn_url">>, called |-> FALSE, extracted |-> <<>>]
         ELSE LET x == extract_text_from_url(url_, xo).ret
              IN  IF x = <<>> \/ Len(x) < MinArticleLen
                  THEN [text |-> <<>>, events |-> <<"extract", "warn_extract">>,
                        called |-> TRUE, extracted |-> x]
                  ELSE [text |-> x, events |-> <<"extract">>, called |-> TRUE,
                        extracted |-> x]
    ELSE [text |-> text_, events |-> <<>>, called |-> FALSE, extracted |-> <<>>]

\* lines 230-281 after a click on 'Analyze article'
article_handler(mode_, text_, url_, use_fc, key, vec_, clf_, classes, threshold, xo, fo, p) ==
    LET a      == article_text(mode_, text_, url_, xo)
        looked == use_fc /\ key_truthy(key)
        fc     == IF looked THEN call_google_factcheck(prefix(a.text, QueryLen), key, fo)
                  ELSE NoCall
        lk     == IF looked THEN <<"lookup">> ELSE <<>>
        d      == display("article", fc.ret, <<>>)
        fb     == article_fallback(vec_, clf_, classes, p, threshold)
    IN  IF a.text = <<>> \/ Len(strip(a.text)) < MinTextLen
        THEN [text |-> a.text, events |-> a.events \o <<"warn_text">>,
              fact_results |-> <<>>, shown |-> <<>>, crashed |-> FALSE,
              probs |-> <<>>, real_prob |-> 0, label |-> <<>>, fc |-> NoCall, a |-> a]
        ELSE IF fc.ret # <<>>
        THEN [text |-> a.text,
              events |-> a.events \o lk \o <<"fc_display">>
                         \o (IF d.crashed THEN <<"crash">> ELSE <<>>),
              fact_results |-> fc.ret, shown |-> d.shown, crashed |-> d.crashed,
              probs |-> <<>>, real_prob |-> 0, label |-> <<>>, fc |-> fc, a |-> a]
        ELSE [text |-> a.text, events |-> a.events \o lk \o fb.events,
              fact_results |-> <<>>, shown |-> <<>>, crashed |-> FALSE,
              probs |-> fb.probs, real_prob |-> fb.real_prob, label |-> fb.label,
              fc |-> fc, a |-> a]

(***************************************************************************)
(* The steps of one script run                                             *)
(***************************************************************************)
IsMessage(e) == e \in {"warn_url", "warn_extract", "warn_text", "unavailable"}

\* the st.warning / st.error calls among the events of an item
MessagesOf(ev, fc) ==
    (IF fc.warned THEN <<"warning: Fact Check API error">> ELSE <<>>)
    \o SelectSeq(ev, IsMessage)

\* the flag follows the button instead of being kept in the session state
FetchButton_BUG ==
    /\ pc = "start"
    /\ fetch_now' = (clicked = "fetch")
    /\ IF fetch_now'
       THEN pc' = "feeds" /\ fetched' = TRUE
       ELSE pc' = "side" /\ fetched' = FALSE
    /\ feedIdx' = 1 /\ headlines' = <<>> /\ metas' = <<>> /\ parsed' = <<>>
    /\ itemIdx' = 1
    /\ raw_shown' = FALSE
    /\ ui' = <<>>
    /\ UNCHANGED <<artifactVars, widgetVars, clicked, itemVars, helperVars>>

\* lines 144-147: the fetch button sets the session flag; the flag opens
\* headline retrieval
FetchButton ==
    /\ pc = "start"
    /\ fetch_now' = (fetch_now \/ clicked = "fetch")
    /\ IF fetch_now'
       THEN pc' = "feeds" /\ fetched' = TRUE
       ELSE pc' = "side" /\ fetched' = FALSE
    /\ feedIdx' = 1 /\ headlines' = <<>> /\ metas' = <<>> /\ parsed' = <<>>
    /\ itemIdx' = 1
    /\ raw_shown' = FALSE
    /\ ui' = <<>>
    /\ UNCHANGED <<artifactVars, widgetVars, clicked, itemVars, helperVars>>

\* lines 164-217: the render loop handles headline itemIdx; the fact-check
\* service answers fo and predict_proba returns p
HeadlineItem(fo, p) ==
    /\ pc = "render"
    /\ itemIdx <= Len(headlines)
    /\ \E r \in {headline_item(headlines[itemIdx], metas[itemIdx].title, use_factcheck,
                              gc_key, vec, clf, classes_, confidence, fo, p)} :
        /\ unit' = "headline"
        /\ text' = headlines[itemIdx]
        /\ events' = r.events
        /\ fact_results' = r.fact_results
        /\ shown' = r.shown
        /\ probs' = r.probs
        /\ real_prob' = r.real_prob
        /\ label' = r.label
        /\ ret' = r.fc.ret
        /\ http' = r.fc.http
        /\ env' = IF r.fc.http = 0 THEN NoRequest ELSE fo
        /\ ui' = MessagesOf(r.events, r.fc)
        /\ raw_shown' = (raw_shown \/ "classify" \in {r.events[i] : i \in 1..Len(r.events)})
        /\ pc' = IF r.crashed THEN "crashed"
                 ELSE IF itemIdx = Len(headlines) THEN "side" ELSE "render"
    /\ itemIdx' = itemIdx + 1
    /\ UNCHANGED <<artifactVars, widgetVars, fetch_now, clicked, fetchVars, extracted, page>>

\* lines 219-281 in a run that 'Analyze article' did not cause: the widgets
\* of the side column are drawn and nothing is analysed
SideColumn ==
    /\ pc = "side"
    /\ clicked # "analyze"
    /\ pc' = "done"
    /\ UNCHANGED <<artifactVars, widgetVars, fetch_now, clicked, fetchVars, itemIdx,
                   itemVars, helperVars, ui, raw_shown>>

\* lines 230-281 in a run caused by a click on 'Analyze article': the page
\* fetch answers xo, the fact-check service fo, predict_proba returns p
AnalyzeArticle(xo, fo, p) ==
    /\ pc = "side"
    /\ clicked = "analyze"
    /\ \E r \in {article_handler(mode, user_text, user_url, use_factcheck, gc_key,
                                vec, clf, classes_, confidence, xo, fo, p)} :
        /\ unit' = "article"
        /\ text' = r.text
        /\ events' = r.events
        /\ fact_results' = r.fact_results
        /\ shown' = r.shown
        /\ probs' = r.probs
        /\ real_prob' = r.real_prob
        /\ label' = r.label
        /\ ret' = r.fc.ret
        /\ http' = r.fc.http
        /\ env' = IF r.fc.http = 0 THEN NoRequest ELSE fo
        /\ extracted' = r.a.extracted
        /\ page' = IF r.a.called THEN xo ELSE NoRequest
        /\ ui' = MessagesOf(r.events, r.fc)
        /\ pc' = IF r.crashed THEN "crashed" ELSE "done"
    /\ UNCHANGED <<artifactVars, widgetVars, fetch_now, clicked, fetchVars, itemIdx,
                   raw_shown>>

(***************************************************************************)
(* SpecRun: one run of the script from any widget and session state        *)
(***************************************************************************)
URL_TEXT == <<"h", "t", "t", "p">>

\* contents of the text area: empty, one character short of the minimum,
\* the minimum, blank, and short once stripped
PasteTexts ==
    {<<>>, rep("x", MinTextLen - 1), rep("x", MinTextLen), rep(" ", MinTextLen + 5),
     <<" ">> \o rep("x", MinTextLen - 1) \o <<" ">>}

\* the <p> blocks of a fetched page
Pages ==
    {<<>>, <<rep("x", MinArticleLen - 1)>>, <<rep("x", MinArticleLen)>>,
     <<rep("x", 24), rep("x", 24)>>, <<rep("x", 23), rep("x", 24)>>,
     <<rep(" ", MinArticleLen)>>,
     <<rep("x", MinTextLen - 1) \o rep(" ", MinArticleLen - MinTextLen + 1)>>}

ExtractOutcomes ==
    {[kind |-> "transport_error"], [kind |-> "timeout"]}
    \cup {[kind |-> "response", status |-> 200, paragraphs |-> pg] : pg \in Pages}
    \cup {[kind |-> "response", status |-> 404, paragraphs |-> pg] :
            pg \in {<<>>, <<rep("x", MinArticleLen)>>}}

\* the entries a feed offers in a run: a headline with a summary, or an
\* entry without title and summary
BlankEntry ==
    [title |-> <<>>, summary |-> <<>>, description |-> <<>>, link |-> <<>>,
     bad_markup |-> FALSE]
RunFeedOutcomes(src) ==
    {[kind |-> "raise"],
     [kind |-> "ok", entries |-> <<LongEntry(src, 1)>>],
     [kind |-> "ok", entries |-> <<BlankEntry>>]}

\* answers of the fact-check service in a run: no answer, no claims, one
\* rated claim, a rated claim followed by one whose rating is a number
RunFcOutcomes ==
    {[kind |-> "timeout"],
     [kind |-> "response", status |-> 200, is_json |-> TRUE, body |-> EmptyObj],
     [kind |-> "response", status |-> 200, is_json |-> TRUE,
      body |-> Body(Arr(<<Claim(Arr(<<Review(Str(R_False))>>))>>))],
     [kind |-> "response", status |-> 200, is_json |-> TRUE,
      body |-> Body(Arr(<<Claim(Arr(<<Review(Str(R_True))>>)),
                          Claim(Arr(<<Review(Num(5))>>))>>))]}

\* predict_proba rows of the shipped two-class classifier
RunProbs == {<<90, 10>>, <<29, 71>>}

\* the mode with the content of the widget it shows
Inputs ==
    {[mode |-> "Paste text", text |-> t, url |-> <<>>] : t \in PasteTexts}
    \cup {[mode |-> "Enter URL", text |-> <<>>, url |-> u] : u \in {<<>>, URL_TEXT}}

InitRun ==
    /\ \E vec_ok, clf_ok \in BOOLEAN :
          /\ vec = load_model(vec_ok, clf_ok).vec
          /\ clf = load_model(vec_ok, clf_ok).clf
    /\ classes_ = <<FAKE, REAL>>
    /\ gc_key \in ApiKeys
    /\ confidence = SliderDefault
    /\ max_feeds = MaxFeedsDefault
    /\ use_factcheck \in BOOLEAN
    /\ \E i \in Inputs : mode = i.mode /\ user_text = i.text /\ user_url = i.url
    /\ fetch_now \in BOOLEAN
    /\ clicked \in {"none", "fetch", "analyze"}
    /\ pc = "start"
    /\ FetchIdle
    /\ itemIdx = 1
    /\ ItemIdle /\ HelperIdle
    /\ probs = <<>>
    /\ ui = <<>>

RunFeed ==
    /\ feedIdx <= Len(Feeds)
    /\ \E o \in RunFeedOutcomes(Feeds[feedIdx]) : FeedStep(o)

\* the network and the classifier answer only when the run asks them
NoAnswer == [kind |-> "none"]
FcAnswers == IF use_factcheck /\ key_truthy(gc_key) THEN RunFcOutcomes ELSE {NoAnswer}
PageAnswers == IF mode = "Enter URL" /\ user_url # <<>> THEN ExtractOutcomes ELSE {NoAnswer}
ProbAnswers == IF vec = "obj" /\ clf = "obj" THEN RunProbs ELSE {<<>>}

NextRun ==
    \/ FetchButton
    \/ RunFeed
    \/ AfterFeeds
    \/ \E fo \in FcAnswers, p \in ProbAnswers : HeadlineItem(fo, p)
    \/ SideColumn
    \/ \E xo \in PageAnswers, fo \in FcAnswers, p \in ProbAnswers : AnalyzeArticle(xo, fo, p)

SpecRun == InitRun /\ [][NextRun]_vars

Ev == {events[i] : i \in 1..Len(events)}

\* the last item went past the guards that reject it: every headline of the
\* render loop, and the article that passed the length guard of line 242
Analysed == unit = "headline" \/ (unit = "article" /\ "warn_text" \notin Ev)

\* the page fetch failed: no response, or an HTTP error response
FetchFailed(o) == o.kind \in {"transport_error", "timeout"} \/ o.status >= 400

\* C5: extract_text_from_url returns the empty string whenever the fetch
\* fails (an HTTP error response included), times out, or the joined
\* paragraph text is shorter than 50 characters; a non-empty return value
\* has at least 50 characters; the URL path analyses only such text.
C5_Claim ==
    page # NoRequest =>
        /\ (FetchFailed(page) \/ Len(join(<<NL, NL>>, page.paragraphs)) < MinArticleLen)
              => extracted = <<>>
        /\ extracted # <<>> => Len(extracted) >= MinArticleLen
        /\ (unit = "article" /\ Analysed) => (text = extracted /\ Len(text) >= MinArticleLen)

\* what C5 leaves standing: the empty string when no response came or the
\* text is short, and only text of at least 50 characters analysed
C5_ShortOrNoResponse ==
    page # NoRequest =>
        /\ (page.kind \in {"transport_error", "timeout"}
            \/ Len(join(<<NL, NL>>, page.paragraphs)) < MinArticleLen) => extracted = <<>>
        /\ extracted # <<>> => Len(extracted) >= MinArticleLen
        /\ (unit = "article" /\ Analysed) => (text = extracted /\ Len(text) >= MinArticleLen)

\* C6: on every path that reaches the classifier the text is non-empty and
\* at least 20 characters long; a shorter text is rejected with a warning
\* and never classified.
C6_Claim ==
    /\ "classify" \in Ev => (text # <<>> /\ Len(text) >= MinTextLen)
    /\ (unit # "none" /\ Len(text) < MinTextLen) =>
          ("classify" \notin Ev /\ "warn_text" \in Ev)

\* what C6 leaves standing: the guard of the 'Analyze article' path
C6_ArticleGuard ==
    unit = "article" =>
        /\ "classify" \in Ev => (text # <<>> /\ Len(strip(text)) >= MinTextLen)
        /\ Len(strip(text)) < MinTextLen => ("classify" \notin Ev /\ "warn_text" \in Ev)

\* C7: for each analysed item the fact-check lookup, made exactly when the
\* lookup is enabled and a key is present, comes before any local
\* classification; the local path (classification, or the model-unavailable
\* error) is taken exactly when the fact-check list is empty; an item is
\* never both shown with fact-check results and classified, and never left
\* without any of the three.
C7_Fallback ==
    Analysed =>
        /\ "lookup" \in Ev <=> (use_factcheck /\ key_truthy(gc_key))
        /\ \A i, j \in 1..Len(events) :
              (events[i] = "lookup" /\ events[j] \in {"classify", "unavailable"}) => i < j
        /\ "fc_display" \in Ev <=> fact_results # <<>>
        /\ ("classify" \in Ev \/ "unavailable" \in Ev) <=> fact_results = <<>>
        /\ "classify" \in Ev <=> (fact_results = <<>> /\ vec # "None" /\ clf # "None")
        /\ "lookup" \notin Ev => fact_results = <<>>
        /\ Cardinality(Ev \cap {"fc_display", "classify", "unavailable"}) = 1

\* an article whose lookup timed out and which was then classified
C7_Witness ==
    /\ unit = "article"
    /\ events = <<"lookup", "classify">>
    /\ env.kind = "timeout"
    /\ label \in {REAL, FAKE}

\* C9: load_model never raises and returns both artifacts or neither; with
\* an artifact absent nothing is classified and each item that falls back
\* gets the explicit not-available error.
C9_Unavailable ==
    /\ \A a, b \in BOOLEAN : ~load_model(a, b).raised
    /\ vec = "None" <=> clf = "None"
    /\ "classify" \in Ev => (vec = "obj" /\ clf = "obj")
    /\ (Analysed /\ fact_results = <<>> /\ (vec = "None" \/ clf = "None")) =>
          /\ "unavailable" \in Ev
          /\ \E i \in 1..Len(ui) : ui[i] = "unavailable"

\* a headline that fell back with no model loaded
C9_Witness ==
    /\ vec = "None" /\ clf = "None"
    /\ unit = "headline"
    /\ "unavailable" \in Ev
    /\ "classify" \notin Ev

(***************************************************************************)
(* Spec: a browser session. The script runs once when the page opens and   *)
(* once more after every interaction with a widget.                        *)
(***************************************************************************)
RunOver == pc \in {"done", "crashed"}

\* the script starts again from its first line: the locals of the last run
\* are gone, st.session_state and the widget values stay
Rerun(button) ==
    /\ RunOver
    /\ pc' = "start"
    /\ clicked' = button
    /\ feedIdx' = 1 /\ headlines' = <<>> /\ metas' = <<>> /\ parsed' = <<>>
    /\ fetched' = FALSE
    /\ itemIdx' = 1
    /\ unit' = "none" /\ text' = <<>> /\ events' = <<>> /\ fact_results' = <<>>
    /\ shown' = <<>> /\ probs' = <<>> /\ real_prob' = 0 /\ label' = <<>>
    /\ ret' = <<>> /\ http' = 0 /\ env' = NoRequest /\ extracted' = <<>>
    /\ page' = NoRequest
    /\ ui' = <<>>
    /\ UNCHANGED <<artifactVars, fetch_now>>

\* line 111: the confidence slider is moved to t
MoveConfidence(t) ==
    /\ t # confidence
    /\ confidence' = t
    /\ Rerun("none")
    /\ UNCHANGED <<max_feeds, use_factcheck, mode, user_text, user_url, raw_shown>>

\* line 112: the per-source slider is moved to n
MoveMaxFeeds(n) ==
    /\ n # max_feeds
    /\ max_feeds' = n
    /\ Rerun("none")
    /\ UNCHANGED <<confidence, use_factcheck, mode, user_text, user_url, raw_shown>>

\* line 113: the fact-check checkbox is toggled
ToggleFactCheck ==
    /\ use_factcheck' = ~use_factcheck
    /\ Rerun("none")
    /\ UNCHANGED <<confidence, max_feeds, mode, user_text, user_url, raw_shown>>

\* line 221: the other mode is selected; the widget of the mode left is no
\* longer drawn
SwitchMode ==
    /\ mode' = IF mode = "Paste text" THEN "Enter URL" ELSE "Paste text"
    /\ user_text' = <<>>
    /\ user_url' = <<>>
    /\ Rerun("none")
    /\ UNCHANGED <<confidence, max_feeds, use_factcheck, raw_shown>>

\* line 226: text is pasted into the text area
EditText(t) ==
    /\ mode = "Paste text"
    /\ t # user_text
    /\ user_text' = t
    /\ Rerun("none")
    /\ UNCHANGED <<confidence, max_feeds, use_factcheck, mode, user_url, raw_shown>>

\* line 228: a URL is typed into the text input
EditUrl(u) ==
    /\ mode = "Enter URL"
    /\ u # user_url
    /\ user_url' = u
    /\ Rerun("none")
    /\ UNCHANGED <<confidence, max_feeds, use_factcheck, mode, user_text, raw_shown>>

\* line 144: 'Fetch latest headlines' is clicked
ClickFetch ==
    /\ Rerun("fetch")
    /\ UNCHANGED <<widgetVars, raw_shown>>

\* line 230: 'Analyze article' is clicked
ClickAnalyze ==
    /\ Rerun("analyze")
    /\ UNCHANGED <<widgetVars, raw_shown>>

\* line 215: a 'Show raw probs' button the last run rendered is clicked
ClickRawProbs ==
    /\ raw_shown
    /\ Rerun("raw")
    /\ UNCHANGED <<widgetVars, raw_shown>>

SessionThresholds == {SliderMin, SliderDefault}
SessionMaxFeeds == {MaxFeedsMin, MaxFeedsDefault}
SessionTexts == {rep("x", MinTextLen)}
SessionFeedOutcomes(src) ==
    {[kind |-> "raise"], [kind |-> "ok", entries |-> <<LongEntry(src, 1)>>]}
SessionFcOutcomes == RunFcOutcomes
SessionPages ==
    {[kind |-> "timeout"],
     [kind |-> "response", status |-> 200, paragraphs |-> <<rep("x", MinArticleLen)>>]}
SessionProbs == RunProbs

SessionFcAnswers ==
    IF use_factcheck /\ key_truthy(gc_key) THEN SessionFcOutcomes ELSE {NoAnswer}
SessionPageAnswers ==
    IF mode = "Enter URL" /\ user_url # <<>> THEN SessionPages ELSE {NoAnswer}
SessionProbAnswers == IF vec = "obj" /\ clf = "obj" THEN SessionProbs ELSE {<<>>}

\* the page is opened: load_model has run, the widgets hold their defaults,
\* the session state is empty and the first run of the script starts
Init ==
    /\ \E vec_ok, clf_ok \in BOOLEAN :
          /\ vec = load_model(vec_ok, clf_ok).vec
          /\ clf = load_model(vec_ok, clf_ok).clf
    /\ classes_ = <<FAKE, REAL>>
    /\ gc_key \in {"None", "KEY"}
    /\ WidgetDefaults
    /\ fetch_now = FALSE
    /\ clicked = "none"
    /\ pc = "start"
    /\ FetchIdle
    /\ itemIdx = 1
    /\ ItemIdle /\ HelperIdle
    /\ probs = <<>>
    /\ ui = <<>>

SessionFeed ==
    /\ feedIdx <= Len(Feeds)
    /\ \E o \in SessionFeedOutcomes(Feeds[feedIdx]) : FeedStep(o)

Next ==
    \/ \E t \in SessionThresholds : MoveConfidence(t)
    \/ \E n \in SessionMaxFeeds : MoveMaxFeeds(n)
    \/ ToggleFactCheck
    \/ SwitchMode
    \/ \E t \in SessionTexts : EditText(t)
    \/ EditUrl(URL_TEXT)
    \/ ClickFetch
    \/ ClickAnalyze
    \/ ClickRawProbs
    \/ FetchButton
    \/ SessionFeed
    \/ AfterFeeds
    \/ \E fo \in SessionFcAnswers, p \in SessionProbAnswers : HeadlineItem(fo, p)
    \/ SideColumn
    \/ \E xo \in SessionPageAnswers, fo \in SessionFcAnswers, p \in SessionProbAnswers :
          AnalyzeArticle(xo, fo, p)

Spec == Init /\ [][Next]_vars

\* C10: fetch_now is false until the first click on 'Fetch latest
\* headlines' and never reset afterwards; every run made while it is set,
\* whatever interaction caused it, visits all feeds and handles every
\* headline fetched, and no run made before the first click retrieves
\* headlines.
C10_Sticky ==
    /\ [][fetch_now => fetch_now']_vars
    /\ [][(~fetch_now /\ fetch_now') => (clicked = "fetch" /\ pc = "start")]_vars
    /\ [](pc # "start" => (fetched <=> fetch_now))
    /\ []((fetched /\ pc \in {"render", "side", "done", "crashed"}) =>
             Len(parsed) = Len(Feeds))
    /\ []((fetched /\ pc = "done") => itemIdx = Len(headlines) + 1)
    /\ []((fetched /\ pc = "crashed" /\ unit = "headline") => itemIdx <= Len(headlines) + 1)

\* a run caused by a click on 'Show raw probs', long after the fetch click,
\* that retrieved and handled headlines again
C10_Witness ==
    /\ clicked = "raw"
    /\ fetch_now /\ fetched
    /\ pc = "done"
    /\ headlines # <<>>
    /\ itemIdx = Len(headlines) + 1

====
